---- MODULE Spec2Model ----
(***************************************************************************)
(* A model of the delegate-attr procedural macro (src/src/lib.rs):         *)
(* delegate_input, delegate_impl_block, delegate_method and replace_self.  *)
(*                                                                         *)
(* Token streams are sequences of token records; the syntax trees that     *)
(* syn hands to the macro are records carrying the fields the code reads.  *)
(* The output of delegate_method is a sequence of segments, one for each   *)
(* interpolation of the final quote! (or one per compile_error! marker).   *)
(***************************************************************************)
EXTENDS Integers, Sequences, FiniteSets, TLC

VARIABLES phase, receiver, self_token, input, output

vars == <<phase, receiver, self_token, input, output>>

(***************************************************************************)
(* Bounds of the model.                                                    *)
(***************************************************************************)
MaxAttrs == 2
MaxArgs == 2
MaxTokens == 4
MaxItems == 3
MaxDepth == 3
MaxLen == 2

SeqsUpTo(S, n) == UNION {[1..k -> S] : k \in 0..n}

(***************************************************************************)
(* proc_macro2 token trees.                                                *)
(***************************************************************************)
Ident(n, sp) == [kind |-> "Ident", text |-> n, span |-> sp, stream |-> <<>>]
Punct(c) == [kind |-> "Punct", text |-> c, span |-> "attr", stream |-> <<>>]
Literal(l) == [kind |-> "Literal", text |-> l, span |-> "attr", stream |-> <<>>]
Group(d, s) == [kind |-> "Group", text |-> d, span |-> "attr", stream |-> s]

(***************************************************************************)
(* replace_self: every `self` identifier of the receiver is replaced by    *)
(* the tokens of self_token, recursing into groups; the per-token results  *)
(* are collected into one stream.                                          *)
(***************************************************************************)
RECURSIVE replace_self_shallow(_, _)
replace_self_shallow(expr, tok) ==
    IF expr = <<>> THEN <<>>
    ELSE LET token == Head(expr)
             mapped == IF token.kind = "Ident" /\ token.text = "self" THEN tok
                       ELSE <<token>>
         IN mapped \o replace_self_shallow(Tail(expr), tok)

RECURSIVE replace_self(_, _)
replace_self(expr, tok) ==
    IF expr = <<>> THEN <<>>
    ELSE LET token == Head(expr)
             mapped == IF token.kind = "Ident" /\ token.text = "self" THEN tok
                       ELSE IF token.kind = "Group"
                            THEN <<Group(token.text, replace_self(token.stream, tok))>>
                            ELSE <<token>>
         IN mapped \o replace_self(Tail(expr), tok)

(***************************************************************************)
(* Attributes of a method: the path and the shape of the argument tokens.  *)
(*   Empty       #[name]                                                   *)
(*   ParenIdent  #[name(ident)]                                            *)
(*   ParenPath   #[name(a::b)]     a path that is no single identifier     *)
(*   ParenExpr   #[name("lit")]    any other parenthesised expression      *)
(*   EqLit       #[name = "lit"]   tokens that are no parenthesised expr   *)
(***************************************************************************)
Attr(p, sh, id) == [path |-> p, shape |-> sh, ident |-> id]

Span(on, i) == [on |-> on, idx |-> i]

Error(sp, msg) == [seg |-> "compile_error", msg |-> msg, span |-> sp]

NoCall == [some |-> FALSE, ident |-> ""]
SomeCall(id) == [some |-> TRUE, ident |-> id]

AttrState0 ==
    [has_inline |-> FALSE, has_into |-> FALSE, call_name |-> NoCall,
     errors |-> <<>>, attrs |-> <<>>]

\* The `into` branch of the retain closure.
IntoAttr(st, attr, i) ==
    LET e1 == IF attr.shape # "Empty"
              THEN <<Error(Span("attr.tokens", i), "unexpected argument")>> ELSE <<>>
        e2 == IF st.has_into
              THEN <<Error(Span("attr", i), "duplicate #[into] attribute")>> ELSE <<>>
    IN [st EXCEPT !.errors = @ \o e1 \o e2, !.has_into = TRUE]

\* The `call` branch with last-write-wins instead of the duplicate error.
CallAttr_LastWins(st, attr, i) ==
    IF attr.shape \in {"ParenIdent", "ParenPath", "ParenExpr"}
    THEN IF attr.shape = "ParenIdent"
         THEN [st EXCEPT !.call_name = SomeCall(attr.ident)]
         ELSE [st EXCEPT !.errors = @ \o
                 <<Error(Span("attr.inner", i), "invalid argument, expected an identifier")>>]
    ELSE [st EXCEPT !.errors = @ \o <<Error(Span("attr.tokens", i), "invalid argument")>>]

\* The `call` branch of the retain closure.
CallAttr(st, attr, i) ==
    IF attr.shape \in {"ParenIdent", "ParenPath", "ParenExpr"}
    THEN IF attr.shape = "ParenIdent"
         THEN [st EXCEPT
                 !.errors = @ \o (IF st.call_name.some
                                  THEN <<Error(Span("attr", i), "duplicate #[call] attribute")>>
                                  ELSE <<>>),
                 !.call_name = SomeCall(attr.ident)]
         ELSE [st EXCEPT !.errors = @ \o
                 <<Error(Span("attr.inner", i), "invalid argument, expected an identifier")>>]
    ELSE [st EXCEPT !.errors = @ \o <<Error(Span("attr.tokens", i), "invalid argument")>>]

\* The value the retain closure returns, with the `return false` of `into` left out.
Retained_KeepInto(attr) == attr.path # "call"

\* The value the retain closure returns: is the attribute kept?
Retained(attr) == attr.path \notin {"into", "call"}

\* One call of the retain closure, with a kept attribute put in front.
RetainStep_Front(st, attr, i) ==
    LET s1 == IF attr.path = "inline" THEN [st EXCEPT !.has_inline = TRUE]
              ELSE IF attr.path = "into" THEN IntoAttr(st, attr, i)
              ELSE IF attr.path = "call" THEN CallAttr(st, attr, i)
              ELSE st
    IN IF Retained(attr) THEN [s1 EXCEPT !.attrs = <<attr>> \o @] ELSE s1

\* One call of the retain closure on attribute i.
RetainStep(st, attr, i) ==
    LET s1 == IF attr.path = "inline" THEN [st EXCEPT !.has_inline = TRUE]
              ELSE IF attr.path = "into" THEN IntoAttr(st, attr, i)
              ELSE IF attr.path = "call" THEN CallAttr(st, attr, i)
              ELSE st
    IN IF Retained(attr) THEN [s1 EXCEPT !.attrs = Append(@, attr)] ELSE s1

\* attrs.retain(...): the closure is called on each attribute in order.
RECURSIVE ParseAttrs(_, _, _)
ParseAttrs(st, attrs, i) ==
    IF i > Len(attrs) THEN st
    ELSE ParseAttrs(RetainStep(st, attrs[i], i), attrs, i + 1)

(***************************************************************************)
(* Parameters of a signature.                                              *)
(*   Receiver      &self, self, &mut self                                  *)
(*   Typed/Ident   [ref] [mut] ident [@ subpattern] : type                 *)
(*   Typed/Tuple   (a, b) : type                                           *)
(***************************************************************************)
ReceiverArg ==
    [kind |-> "Receiver", pat |-> "", by_ref |-> FALSE, mutability |-> FALSE,
     ident |-> "self", subpat |-> FALSE]
TypedIdent(r, m, id, s) ==
    [kind |-> "Typed", pat |-> "Ident", by_ref |-> r, mutability |-> m,
     ident |-> id, subpat |-> s]
TypedTuple ==
    [kind |-> "Typed", pat |-> "Tuple", by_ref |-> FALSE, mutability |-> FALSE,
     ident |-> "", subpat |-> FALSE]

\* PatIdent::to_tokens: by_ref, mutability, ident, then `@ subpat`.
PatIdentTokens(p) ==
    (IF p.by_ref THEN <<"ref">> ELSE <<>>) \o
    (IF p.mutability THEN <<"mut">> ELSE <<>>) \o
    <<p.ident>> \o
    (IF p.subpat THEN <<"@", "_">> ELSE <<>>)

SelfIdent == Ident("self", "sig")

\* The self token and the error of the first parameter.
ExtractSelf(inputs) ==
    IF inputs = <<>>
    THEN [token |-> <<>>, errors |-> <<Error(Span("sig.paren", 0), "expected self")>>]
    ELSE LET a == inputs[1]
         IN IF a.kind = "Receiver" THEN [token |-> <<SelfIdent>>, errors |-> <<>>]
            ELSE IF a.pat = "Ident" /\ a.ident = "self"
                 THEN [token |-> <<SelfIdent>>, errors |-> <<>>]
                 ELSE [token |-> <<>>,
                       errors |-> <<Error(Span("arg", 1), "expected self")>>]

\* The filter_map closure: the argument a parameter contributes, or an error.
ArgOf(arg, i) ==
    IF arg.kind = "Typed"
    THEN IF arg.pat = "Ident"
         THEN [args |-> <<PatIdentTokens(arg)>>, errors |-> <<>>]
         ELSE [args |-> <<>>,
               errors |-> <<Error(Span("arg.pat", i), "expect an identifier")>>]
    ELSE [args |-> <<>>, errors |-> <<Error(Span("arg", i), "unexpected argument")>>]

\* inputs.filter_map(...).collect() over the parameters after the first.
RECURSIVE ListArgs(_, _)
ListArgs(inputs, i) ==
    IF i > Len(inputs) THEN [args |-> <<>>, errors |-> <<>>]
    ELSE LET h == ArgOf(inputs[i], i)
             t == ListArgs(inputs, i + 1)
         IN [args |-> h.args \o t.args, errors |-> h.errors \o t.errors]

\* The called name with the rename ignored.
CallName_Own(call_name, sig) == sig.ident

\* call_name.as_ref().unwrap_or(&sig.ident)
CallName(call_name, sig) == IF call_name.some THEN call_name.ident ELSE sig.ident

\* The body with the conversion tested before the return type.
WrapBody_IntoFirst(call, sig, has_into) ==
    IF has_into THEN [shape |-> "Into", ty |-> sig.output, call |-> call]
    ELSE IF sig.output = "Default" THEN [shape |-> "Stmt", ty |-> "", call |-> call]
    ELSE [shape |-> "Bare", ty |-> "", call |-> call]

\* match &sig.output: `call;`, `Into::<ty>::into(call)` or `call`.
WrapBody(call, sig, has_into) ==
    IF sig.output = "Default" THEN [shape |-> "Stmt", ty |-> "", call |-> call]
    ELSE IF has_into THEN [shape |-> "Into", ty |-> sig.output, call |-> call]
    ELSE [shape |-> "Bare", ty |-> "", call |-> call]

\* The final quote!: attributes, the default inline, visibility, signature, body.
MethodTokens(attrs, has_inline, m, body) ==
    [i \in 1..Len(attrs) |-> [seg |-> "attr", attr |-> attrs[i]]] \o
    (IF ~has_inline THEN <<[seg |-> "inline_always"]>> ELSE <<>>) \o
    <<[seg |-> "vis", vis |-> m.vis],
      [seg |-> "sig", sig |-> m.sig],
      [seg |-> "body", body |-> body]>>

\* The errors are not returned alone: the method follows them.
ErrorsOr_Both(errors, generated) == errors \o generated

\* if !errors.is_empty() { return errors; }
ErrorsOr(errors, generated) == IF errors # <<>> THEN errors ELSE generated

delegate_method(m, recv) ==
    LET st == ParseAttrs(AttrState0, m.attrs, 1)
        slf == ExtractSelf(m.sig.inputs)
        lst == ListArgs(m.sig.inputs, 2)
        errors == st.errors \o slf.errors \o lst.errors
        name == CallName(st.call_name, m.sig)
        call == [receiver |-> replace_self(recv, slf.token), name |-> name,
                 args |-> lst.args]
        body == WrapBody(call, m.sig, st.has_into)
    IN ErrorsOr(errors, MethodTokens(st.attrs, st.has_inline, m, body))

(***************************************************************************)
(* The inputs of the method specification.                                 *)
(***************************************************************************)
AttrUniverse ==
    {Attr("inline", "Empty", ""), Attr("into", "Empty", ""), Attr("into", "EqLit", ""),
     Attr("call", "ParenIdent", "len"), Attr("call", "ParenIdent", "size"),
     Attr("call", "ParenExpr", ""), Attr("call", "ParenPath", ""),
     Attr("doc", "EqLit", ""), Attr("must_use", "Empty", "")}

FirstArgs == {ReceiverArg, TypedIdent(FALSE, FALSE, "self", FALSE),
              TypedIdent(FALSE, FALSE, "x", FALSE)}

RestArgs == {TypedIdent(FALSE, FALSE, "x", FALSE), TypedIdent(FALSE, TRUE, "y", FALSE),
             TypedTuple, ReceiverArg}

InputLists == {<<>>} \cup {<<f>> \o r : f \in FirstArgs, r \in SeqsUpTo(RestArgs, MaxArgs)}

Signatures == [ident : {"size"}, inputs : InputLists, output : {"Default", "u64"}]

Methods == [attrs : SeqsUpTo(AttrUniverse, MaxAttrs), vis : {"pub"}, sig : Signatures]

\* self.0.borrow()
Receiver0 ==
    <<Ident("self", "attr"), Punct("."), Literal("0"), Punct("."),
      Ident("borrow", "attr"), Group("Parenthesis", <<>>)>>

InitMethod ==
    /\ phase = "start"
    /\ receiver = Receiver0
    /\ self_token = <<>>
    /\ input \in Methods
    /\ output = <<>>

DelegateMethod ==
    /\ phase = "start"
    /\ phase' = "done"
    /\ output' = delegate_method(input, receiver)
    /\ UNCHANGED <<receiver, self_token, input>>

NextMethod == DelegateMethod

SpecMethod == InitMethod /\ [][NextMethod]_vars

(***************************************************************************)
(* delegate_impl_block: every method of the block goes through             *)
(* delegate_method, every other item is emitted as it is; the header is    *)
(* emitted with the where clause moved behind the self type.               *)
(***************************************************************************)
\* The closure of items.map with the non-method items left out.
ItemTokens_DropOther(item, recv) ==
    IF item.kind # "Method" THEN <<>>
    ELSE delegate_method(item.method, recv)

\* The closure of items.map: the tokens one item of the block becomes.
ItemTokens(item, recv) ==
    IF item.kind # "Method" THEN <<[seg |-> "item", item |-> item]>>
    ELSE delegate_method(item.method, recv)

delegate_impl_block(block, recv) ==
    <<[seg |-> "impl",
       attrs |-> block.attrs,
       generics |-> block.generics,
       trait_ |-> block.trait_,
       self_ty |-> block.self_ty,
       where_clause |-> block.where_clause,
       items |-> [i \in 1..Len(block.items) |-> ItemTokens(block.items[i], recv)]]>>

(***************************************************************************)
(* delegate_input: the input is parsed as an impl block, then as a method; *)
(* when both fail the first token after the leading attributes chooses the *)
(* message, and the macro panics when there is no such token.              *)
(* The scan returns the position of that token, 0 for None.                *)
(***************************************************************************)
IsHash(t) == t.kind = "Punct" /\ t.text = "#"

RECURSIVE ScanOuter(_, _)
RECURSIVE ScanAttr_NoPunctSkip(_, _)
RECURSIVE ScanAttr(_, _)

\* The inner loop without the arm that skips punctuation.
ScanAttr_NoPunctSkip(tokens, k) ==
    IF k > Len(tokens) THEN 0
    ELSE IF tokens[k].kind = "Group" THEN ScanOuter(tokens, k + 1)
    ELSE k

\* The inner loop: after a `#`, punctuation is skipped up to the group.
ScanAttr(tokens, k) ==
    IF k > Len(tokens) THEN 0
    ELSE IF tokens[k].kind = "Punct" THEN ScanAttr(tokens, k + 1)
    ELSE IF tokens[k].kind = "Group" THEN ScanOuter(tokens, k + 1)
    ELSE k

\* The outer loop: a `#` opens an attribute, any other token ends the scan.
ScanOuter(tokens, k) ==
    IF k > Len(tokens) THEN 0
    ELSE IF IsHash(tokens[k]) THEN ScanAttr(tokens, k + 1)
    ELSE k

DiagnosticMsg(token) ==
    IF token.kind = "Ident" /\ token.text = "impl" THEN "invalid impl block for #[delegate]"
    ELSE IF token.kind = "Ident" /\ token.text = "fn" THEN "invalid method for #[delegate]"
    ELSE "expected an impl block or method inside impl block"

\* syn::parse2::<ItemImpl> and syn::parse2::<ImplItemMethod> succeed on the
\* inputs that carry the parsed item.
ParsesAsImpl(inp) == inp.kind = "ItemImpl"
ParsesAsMethod(inp) == inp.kind = "ImplItemMethod"

delegate_input(inp, recv) ==
    IF ParsesAsImpl(inp)
    THEN [panicked |-> FALSE, tokens |-> delegate_impl_block(inp.item, recv)]
    ELSE IF ParsesAsMethod(inp)
    THEN [panicked |-> FALSE, tokens |-> delegate_method(inp.item, recv)]
    ELSE LET k == ScanOuter(inp.item, 1)
         IN IF k # 0
            THEN [panicked |-> FALSE,
                  tokens |-> <<Error(Span("token", k), DiagnosticMsg(inp.item[k]))>>]
            ELSE [panicked |-> TRUE, tokens |-> <<>>]

(***************************************************************************)
(* The inputs of the dispatcher specification.                             *)
(***************************************************************************)
Method(attrs, inputs, out) ==
    [attrs |-> attrs, vis |-> "pub",
     sig |-> [ident |-> "size", inputs |-> inputs, output |-> out]]

\* fn size(&self) -> u64;
MethodPlain == Method(<<>>, <<ReceiverArg>>, "u64")
\* #[call(len)] fn size(&self, x: T);
MethodCall ==
    Method(<<Attr("call", "ParenIdent", "len")>>,
           <<ReceiverArg, TypedIdent(FALSE, FALSE, "x", FALSE)>>, "Default")
\* fn size(x: &Foo) -> u64;
MethodNoSelf == Method(<<>>, <<TypedIdent(FALSE, FALSE, "x", FALSE)>>, "u64")

BlockMethods == {MethodPlain, MethodCall, MethodNoSelf}

ImplItems ==
    {[kind |-> "Method", method |-> m] : m \in BlockMethods} \cup
    {[kind |-> "Type", text |-> "type Item = u8;"],
     [kind |-> "Const", text |-> "const N: usize = 1;"]}

Blocks ==
    [attrs : {<<>>}, generics : {"", "<T>"}, trait_ : {"", "Iterator for"},
     self_ty : {"Foo"}, where_clause : {""}, items : SeqsUpTo(ImplItems, MaxItems)]

\* Tokens of which no sequence is an impl block or a method: neither has a
\* brace or parenthesis group.
RawTokens ==
    {Punct("#"), Punct("!"), Group("Bracket", <<>>),
     Ident("impl", "item"), Ident("fn", "item"), Ident("x", "item")}

Inputs ==
    {[kind |-> "ItemImpl", item |-> b] : b \in Blocks} \cup
    {[kind |-> "ImplItemMethod", item |-> m] : m \in BlockMethods} \cup
    {[kind |-> "Tokens", item |-> t] : t \in SeqsUpTo(RawTokens, MaxTokens)}

\* self.0
Receiver1 == <<Ident("self", "attr"), Punct("."), Literal("0")>>

InitInput ==
    /\ phase = "start"
    /\ receiver \in {Receiver0, Receiver1}
    /\ self_token = <<>>
    /\ input \in Inputs
    /\ output = <<>>

DelegateInput ==
    /\ phase = "start"
    /\ LET r == delegate_input(input, receiver)
       IN /\ phase' = IF r.panicked THEN "panicked" ELSE "done"
          /\ output' = r.tokens
    /\ UNCHANGED <<receiver, self_token, input>>

NextInput == DelegateInput

SpecInput == InitInput /\ [][NextInput]_vars

(***************************************************************************)
(* The inputs of the replace_self specification: receivers with groups     *)
(* nested up to MaxDepth deep, and the self token of a signature.          *)
(***************************************************************************)
Leaves == {Ident("self", "attr"), Ident("myself", "attr"), Punct(".")}
Delimiters == {"Parenthesis", "Brace", "Bracket"}
GroupTails == {<<>>, <<Ident("self", "attr")>>}

RECURSIVE Streams(_)
Streams(d) ==
    IF d = 0 THEN SeqsUpTo(Leaves, MaxLen)
    ELSE LET inner == Streams(d - 1)
         IN SeqsUpTo(Leaves, MaxLen) \cup
            {<<Group(dl, s)>> \o t : dl \in Delimiters, s \in inner, t \in GroupTails}

SelfTokens == {<<Ident("self", "sig")>>, <<Ident("self", "attr")>>}

InitReplace ==
    /\ phase = "start"
    /\ receiver \in Streams(MaxDepth)
    /\ self_token \in SelfTokens
    /\ input = <<>>
    /\ output = <<>>

ReplaceSelf ==
    /\ phase = "start"
    /\ phase' = "done"
    /\ output' = replace_self(receiver, self_token)
    /\ UNCHANGED <<receiver, self_token, input>>

NextReplace == ReplaceSelf

SpecReplace == InitReplace /\ [][NextReplace]_vars

(***************************************************************************)
(* What the properties read from the state of the method specification.   *)
(***************************************************************************)
Done == phase = "done"

OnlyErrors ==
    /\ Len(output) >= 1
    /\ \A i \in 1..Len(output) : output[i].seg = "compile_error"

\* attributes, at most one default inline, then visibility, signature and body
CleanMethod ==
    /\ Len(output) >= 3
    /\ output[Len(output) - 2].seg = "vis"
    /\ output[Len(output) - 1].seg = "sig"
    /\ output[Len(output)].seg = "body"
    /\ \A i \in 1..(Len(output) - 3) : output[i].seg \in {"attr", "inline_always"}
    /\ Cardinality({i \in 1..Len(output) : output[i].seg = "inline_always"}) <= 1

Rewritten == Done /\ CleanMethod

IsAttrSeg(s) == s.seg = "attr"
OutAttrs ==
    LET segs == SelectSeq(output, IsAttrSeg)
    IN [i \in 1..Len(segs) |-> segs[i].attr]
OutBody == output[Len(output)].body
OutSig == output[Len(output) - 1].sig
DefaultInline == \E i \in 1..Len(output) : output[i].seg = "inline_always"

InAttrs == input.attrs
HasAttr(p) == \E i \in 1..Len(InAttrs) : InAttrs[i].path = p
AttrsNamed(p) == {i \in 1..Len(InAttrs) : InAttrs[i].path = p}
IsPassThrough(a) == a.path \notin {"inline", "into", "call"}
IsInlineAttr(a) == a.path = "inline"
ReturnAbsent == input.sig.output = "Default"

\* C1 as stated: the body is a statement-terminated call iff no return type is
\* declared, a conversion-wrapped call iff #[into] is present, a bare call otherwise.
CE_C1 ==
    Rewritten =>
        /\ (OutBody.shape = "Stmt") <=> ReturnAbsent
        /\ (OutBody.shape = "Into") <=> HasAttr("into")
        /\ (OutBody.shape = "Bare") <=> (~ReturnAbsent /\ ~HasAttr("into"))

\* C1 amended: the body is a statement-terminated call iff no return type is
\* declared (with or without #[into]), a conversion to the declared return type
\* iff a return type is declared and #[into] is present, and a bare call iff a
\* return type is declared and #[into] is absent.
Thm_C1 ==
    Rewritten =>
        /\ OutBody.shape \in {"Stmt", "Into", "Bare"}
        /\ (OutBody.shape = "Stmt") <=> ReturnAbsent
        /\ (OutBody.shape = "Into") <=> (~ReturnAbsent /\ HasAttr("into"))
        /\ (OutBody.shape = "Bare") <=> (~ReturnAbsent /\ ~HasAttr("into"))
        /\ (OutBody.shape = "Into") => OutBody.ty = input.sig.output

\* C1 witness: #[into] on a method without return type, rewritten as a statement.
Wit_C1 == Rewritten /\ ReturnAbsent /\ HasAttr("into") /\ OutBody.shape = "Stmt"

SelfLike(a) == a.kind = "Receiver" \/ (a.pat = "Ident" /\ a.ident = "self")
PlainParam(a) == a.kind = "Typed" /\ a.pat = "Ident"
SelfProblem == input.sig.inputs = <<>> \/ ~SelfLike(input.sig.inputs[1])
ParamProblem == \E i \in 2..Len(input.sig.inputs) : ~PlainParam(input.sig.inputs[i])
AttrProblem ==
    \/ \E i \in AttrsNamed("into") : InAttrs[i].shape # "Empty"
    \/ Cardinality(AttrsNamed("into")) >= 2
    \/ \E i \in AttrsNamed("call") : InAttrs[i].shape # "ParenIdent"
    \/ Cardinality(AttrsNamed("call")) >= 2

\* C2: the output of delegate_method is either the rewritten method without any
\* compile_error marker, or compile_error markers and nothing else; a missing or
\* non-self first parameter, an attribute error or a non-identifier parameter
\* gives the markers.
Thm_C2 ==
    Done =>
        /\ OnlyErrors \/ CleanMethod
        /\ (SelfProblem \/ AttrProblem \/ ParamProblem) => OnlyErrors

\* C2 witness: fn size(x: &Foo) -> u64; gives the "expected self" marker alone.
Wit_C2 ==
    /\ Done
    /\ input.attrs = <<>>
    /\ input.sig.inputs = <<TypedIdent(FALSE, FALSE, "x", FALSE)>>
    /\ output = <<Error(Span("arg", 1), "expected self")>>

\* C3 as stated: no attribute named inline, into or call of the input is on the
\* rewritten method, and the default inline is emitted iff the input has no inline.
CE_C3 ==
    Rewritten =>
        /\ \A i \in 1..Len(OutAttrs) : OutAttrs[i].path \notin {"inline", "into", "call"}
        /\ DefaultInline <=> ~HasAttr("inline")

\* C3 amended: no attribute named into or call is on the rewritten method; the
\* inline attributes of the input stay on it unchanged, and the default inline is
\* emitted iff the input has no inline attribute.
Thm_C3 ==
    Rewritten =>
        /\ \A i \in 1..Len(OutAttrs) : OutAttrs[i].path \notin {"into", "call"}
        /\ SelectSeq(OutAttrs, IsInlineAttr) = SelectSeq(InAttrs, IsInlineAttr)
        /\ DefaultInline <=> ~HasAttr("inline")

\* C3 witness: #[inline] and #[into] on a rewritten method; inline stays, into is gone.
Wit_C3 ==
    /\ Rewritten
    /\ HasAttr("inline") /\ HasAttr("into")
    /\ OutAttrs = <<Attr("inline", "Empty", "")>>
    /\ ~DefaultInline

\* C4: the arguments of the generated call are exactly the names of the
\* parameters after the first, in order, with no modifier or sub-pattern.
CE_C4 ==
    Rewritten =>
        OutBody.call.args =
            [i \in 1..(Len(input.sig.inputs) - 1) |-> <<input.sig.inputs[i + 1].ident>>]

\* C5: the attributes of the input that are none of the three directives are on
\* the rewritten method unchanged and in the same order, none dropped or repeated.
Thm_C5 ==
    Rewritten => SelectSeq(OutAttrs, IsPassThrough) = SelectSeq(InAttrs, IsPassThrough)

\* C5 witness: #[doc = ".."] #[must_use] are both on the rewritten method, in order.
Wit_C5 ==
    /\ Rewritten
    /\ InAttrs = <<Attr("doc", "EqLit", ""), Attr("must_use", "Empty", "")>>
    /\ OutAttrs = InAttrs

\* C6: the generated call invokes the target of #[call(R)] when there is one and
\* the method's own name otherwise, and the signature keeps the original name.
Thm_C6 ==
    Rewritten =>
        /\ OutSig.ident = input.sig.ident
        /\ ~HasAttr("call") => OutBody.call.name = input.sig.ident
        /\ \A i \in AttrsNamed("call") :
              /\ OutBody.call.name = InAttrs[i].ident
              /\ InAttrs[i].ident # input.sig.ident => OutBody.call.name # input.sig.ident

\* C6 witness: #[call(len)] fn size(..) calls len and still declares size.
Wit_C6 ==
    /\ Rewritten
    /\ InAttrs = <<Attr("call", "ParenIdent", "len")>>
    /\ input.sig.ident = "size"
    /\ OutBody.call.name = "len"
    /\ OutSig.ident = "size"

TwoValidCalls ==
    /\ Cardinality(AttrsNamed("call")) = 2
    /\ \A i \in AttrsNamed("call") : InAttrs[i].shape = "ParenIdent"
    /\ Cardinality(AttrsNamed("into")) <= 1
    /\ \A i \in AttrsNamed("into") : InAttrs[i].shape = "Empty"
    /\ ~SelfProblem /\ ~ParamProblem

\* C7: two #[call] attributes with identifier arguments on an otherwise valid
\* method give exactly one "duplicate #[call] attribute" marker and no method.
Thm_C7 ==
    (Done /\ TwoValidCalls) =>
        /\ Len(output) = 1
        /\ output[1].seg = "compile_error"
        /\ output[1].msg = "duplicate #[call] attribute"

\* C7 witness: #[call(len)] #[call(size)] fn size(&self) gives the one marker.
Wit_C7 ==
    /\ Done
    /\ InAttrs = <<Attr("call", "ParenIdent", "len"), Attr("call", "ParenIdent", "size")>>
    /\ input.sig.inputs = <<ReceiverArg>>
    /\ output = <<Error(Span("attr", 2), "duplicate #[call] attribute")>>

(***************************************************************************)
(* What the properties read from the state of the dispatcher.             *)
(***************************************************************************)
RawInput == input.kind = "Tokens"
Finished == phase # "start"

\* s is a run of whole attribute markers: `#`, punctuation, a group, repeated
WholeMarkers(s) ==
    \/ s = <<>>
    \/ /\ IsHash(s[1])
       /\ s[Len(s)].kind = "Group"
       /\ \A j \in 1..Len(s) :
             /\ s[j].kind \in {"Punct", "Group"}
             /\ (s[j].kind = "Group" /\ j < Len(s)) => IsHash(s[j + 1])

\* s is a run of whole markers and a last marker that lacks its group
OpenMarker(s) ==
    /\ s # <<>>
    /\ IsHash(s[1])
    /\ s[Len(s)].kind = "Punct"
    /\ \A j \in 1..Len(s) :
          /\ s[j].kind \in {"Punct", "Group"}
          /\ s[j].kind = "Group" => IsHash(s[j + 1])

\* token k is the first token after the leading attribute markers
FirstAfterMarkers(k) ==
    LET before == SubSeq(input.item, 1, k - 1)
    IN \/ WholeMarkers(before) /\ ~IsHash(input.item[k])
       \/ OpenMarker(before) /\ input.item[k].kind \notin {"Punct", "Group"}

ExpectedMsg(t) ==
    CASE t.kind = "Ident" /\ t.text = "impl" -> "invalid impl block for #[delegate]"
      [] t.kind = "Ident" /\ t.text = "fn" -> "invalid method for #[delegate]"
      [] OTHER -> "expected an impl block or method inside impl block"

\* C8 as stated: an input that is neither an impl block nor a method gives
\* exactly one diagnostic, and the panic happens on the empty input alone.
CE_C8 ==
    (Finished /\ RawInput) =>
        /\ (phase = "panicked") <=> (input.item = <<>>)
        /\ input.item # <<>> =>
              (Len(output) = 1 /\ output[1].seg = "compile_error")

\* C8 amended: an input that is neither an impl block nor a method makes the
\* dispatcher panic exactly when no token is left after the leading attribute
\* markers (the empty input, and an input of attribute markers alone); any other
\* such input gives exactly one diagnostic, at the first token after the markers
\* and chosen by it: `impl`, `fn`, or anything else.
Thm_C8 ==
    (Finished /\ RawInput) =>
        /\ (phase = "panicked") <=> (WholeMarkers(input.item) \/ OpenMarker(input.item))
        /\ phase = "panicked" => output = <<>>
        /\ phase = "done" =>
              \E k \in 1..Len(input.item) :
                  /\ FirstAfterMarkers(k)
                  /\ output = <<Error(Span("token", k), ExpectedMsg(input.item[k]))>>

\* C8 witness: #![cfg] impl gives the invalid-impl diagnostic at the impl token.
Wit_C8 ==
    /\ phase = "done"
    /\ RawInput
    /\ input.item = <<Punct("#"), Punct("!"), Group("Bracket", <<>>)>>
                        \o <<Ident("impl", "item")>>
    /\ output = <<Error(Span("token", 4), "invalid impl block for #[delegate]")>>

ValidMethod(m) ==
    /\ m.sig.inputs # <<>> /\ SelfLike(m.sig.inputs[1])
    /\ \A i \in 2..Len(m.sig.inputs) : PlainParam(m.sig.inputs[i])
    /\ \A i \in 1..Len(m.attrs) :
          /\ m.attrs[i].path = "into" => m.attrs[i].shape = "Empty"
          /\ m.attrs[i].path = "call" => m.attrs[i].shape = "ParenIdent"
    /\ Cardinality({i \in 1..Len(m.attrs) : m.attrs[i].path = "into"}) <= 1
    /\ Cardinality({i \in 1..Len(m.attrs) : m.attrs[i].path = "call"}) <= 1

NoMarker(segs) == \A i \in 1..Len(segs) : segs[i].seg # "compile_error"

\* C10: the output block has one member per member of the input, in the same
\* order; a member that is no method is emitted as it is, a method is replaced by
\* what delegate_method gives for it alone, so a valid method is rewritten
\* whatever its siblings are.
Thm_C10 ==
    (Finished /\ input.kind = "ItemImpl") =>
        /\ phase = "done"
        /\ Len(output) = 1
        /\ output[1].seg = "impl"
        /\ Len(output[1].items) = Len(input.item.items)
        /\ \A i \in 1..Len(input.item.items) :
              LET it == input.item.items[i]
                  out == output[1].items[i]
              IN IF it.kind = "Method"
                 THEN /\ out = delegate_method(it.method, receiver)
                      /\ ValidMethod(it.method) =>
                            (NoMarker(out) /\ out[Len(out)].seg = "body")
                 ELSE out = <<[seg |-> "item", item |-> it]>>

\* C10 witness: impl Foo { type Item = u8; fn size(x: &Foo) -> u64; fn size(&self) -> u64; }
Wit_C10 ==
    /\ phase = "done"
    /\ input.kind = "ItemImpl"
    /\ input.item.items =
          <<[kind |-> "Type", text |-> "type Item = u8;"],
            [kind |-> "Method", method |-> MethodNoSelf],
            [kind |-> "Method", method |-> MethodPlain]>>
    /\ output[1].items[1] = <<[seg |-> "item", item |-> input.item.items[1]]>>
    /\ output[1].items[2] = <<Error(Span("arg", 1), "expected self")>>
    /\ NoMarker(output[1].items[3])
    /\ output[1].items[3][4].seg = "body"

(***************************************************************************)
(* What the properties read from the state of replace_self.               *)
(***************************************************************************)
IsSelf(t) == t.kind = "Ident" /\ t.text = "self"

RECURSIVE HasSelf(_)
HasSelf(s) ==
    \E i \in 1..Len(s) : IsSelf(s[i]) \/ (s[i].kind = "Group" /\ HasSelf(s[i].stream))

\* out is s with every `self` identifier replaced by the token t, at every depth
RECURSIVE Substituted(_, _, _)
Substituted(s, out, t) ==
    /\ Len(out) = Len(s)
    /\ \A i \in 1..Len(s) :
          IF IsSelf(s[i]) THEN out[i] = t
          ELSE IF s[i].kind = "Group"
               THEN /\ out[i].kind = "Group"
                    /\ out[i].text = s[i].text
                    /\ Substituted(s[i].stream, out[i].stream, t)
               ELSE out[i] = s[i]

\* C9: replace_self gives a stream of the same structure in which every `self`
\* identifier, at any depth, is the self token, every other token and every
\* delimiter is unchanged; a receiver without `self` comes back unchanged, and
\* so does any receiver when the self token is the receiver's own `self`.
Thm_C9 ==
    Done =>
        /\ Substituted(receiver, output, self_token[1])
        /\ ~HasSelf(receiver) => output = receiver
        /\ self_token = <<Ident("self", "attr")>> => output = receiver

\* C9 witness: ([{self myself}] self) self with the self token of the signature.
Wit_C9 ==
    /\ Done
    /\ self_token = <<SelfIdent>>
    /\ receiver =
          <<Group("Parenthesis",
              <<Group("Bracket",
                  <<Group("Brace", <<Ident("self", "attr"), Ident("myself", "attr")>>)>>),
                Ident("self", "attr")>>),
            Ident("self", "attr")>>
    /\ output =
          <<Group("Parenthesis",
              <<Group("Bracket",
                  <<Group("Brace", <<SelfIdent, Ident("myself", "attr")>>)>>),
                SelfIdent>>),
            SelfIdent>>

====
